---- MODULE Spec2Model ----
(***************************************************************************)
(* aioarangodb.cluster.Cluster: the request / execute / response-handler   *)
(* pipeline.  Every method of Cluster builds one Request and one           *)
(* response_handler closure and awaits self._execute(request, handler).    *)
(*                                                                         *)
(* Python values are encoded as records [t, s, l, d]: t is the type tag,   *)
(* s the text of a scalar, l the items of a list, d the mapping of a dict. *)
(***************************************************************************)
EXTENDS Integers, Sequences, FiniteSets, TLC

\* Longest list found under the key 'endpoints' of a response body.
MaxEndpoints == 2

\* Number of calls that may be in flight on the one Cluster object.
MaxCalls == 2

----------------------------------------------------------------------------
\* Python values

EmptyMap == [k \in {} |-> 0]

PyNone == [t |-> "None", s |-> "None", l |-> <<>>, d |-> EmptyMap]

PyStr(str) == [t |-> "str", s |-> str, l |-> <<>>, d |-> EmptyMap]

PyInt(digits) == [t |-> "int", s |-> digits, l |-> <<>>, d |-> EmptyMap]

PyBool(text) == [t |-> "bool", s |-> text, l |-> <<>>, d |-> EmptyMap]

PyList(items) == [t |-> "list", s |-> "", l |-> items, d |-> EmptyMap]

PyDict(map) == [t |-> "dict", s |-> "", l |-> <<>>, d |-> map]

\* str(v) for the scalars, as str.format renders a '{}' field.
PyStrOf(v) ==
    CASE v.t = "str"  -> v.s
      [] v.t = "None" -> "None"
      [] v.t = "bool" -> v.s
      [] v.t = "int"  -> v.s

\* The result of evaluating an expression: a value, or a raised builtin error.
Ok(v) == [ok |-> TRUE, val |-> v, exc |-> ""]

Err(e) == [ok |-> FALSE, val |-> PyNone, exc |-> e]

\* obj[key] for a str key.
PyGetItem(obj, key) ==
    IF obj.t = "dict"
    THEN IF key \in DOMAIN obj.d THEN Ok(obj.d[key]) ELSE Err("KeyError")
    ELSE Err("TypeError")

\* The dict obj after `del obj[key]`.
PyWithout(obj, key) == PyDict([k \in DOMAIN obj.d \ {key} |-> obj.d[k]])

\* obj.pop(key) for a str key: the popped value (or the error) and obj afterwards.
PyPop(obj, key) ==
    IF obj.t = "dict"
    THEN IF key \in DOMAIN obj.d
         THEN [ok |-> TRUE, val |-> obj.d[key], exc |-> "", obj |-> PyWithout(obj, key)]
         ELSE [ok |-> FALSE, val |-> PyNone, exc |-> "KeyError", obj |-> obj]
    ELSE [ok |-> FALSE, val |-> PyNone,
          exc |-> IF obj.t = "list" THEN "TypeError" ELSE "AttributeError",
          obj |-> obj]

\* Some enumeration of a finite set as a sequence.
RECURSIVE SeqOf(_)
SeqOf(S) == IF S = {} THEN <<>>
            ELSE LET x == CHOOSE y \in S : TRUE
                 IN  <<x>> \o SeqOf(S \ {x})

\* iter(obj): the items a `for` loop visits.
PyIter(obj) ==
    CASE obj.t = "list" -> [ok |-> TRUE, items |-> obj.l, exc |-> ""]
      [] obj.t = "dict" -> [ok |-> TRUE, exc |-> "",
                            items |-> [i \in 1..Cardinality(DOMAIN obj.d) |->
                                          PyStr(SeqOf(DOMAIN obj.d)[i])]]
      [] obj.t = "str"  -> [ok |-> TRUE, exc |-> "",
                            items |-> [i \in 1..Len(obj.s) |->
                                          PyStr(SubSeq(obj.s, i, i))]]
      [] OTHER          -> [ok |-> FALSE, items |-> <<>>, exc |-> "TypeError"]

----------------------------------------------------------------------------
\* Request and Response

\* Request(method, endpoint, params=None, data=None)
Request(method, endpoint, params, data) ==
    [method |-> method, endpoint |-> endpoint, params |-> params, data |-> data]

Response(status_code, is_success, body) ==
    [status_code |-> status_code, is_success |-> is_success, body |-> body]

NoRequest == Request("", "", PyNone, PyNone)

NoResponse == Response(0, FALSE, PyNone)

----------------------------------------------------------------------------
\* What running a response handler does: it returns a value or raises, and
\* leaves the Response object it was given in the state `resp`.

Returned(v, resp) ==
    [kind |-> "return", value |-> v, exc |-> "",
     eresp |-> NoResponse, ereq |-> NoRequest, resp |-> resp]

\* raise SomeArangoError(resp, request)
Raised(error, resp, request) ==
    [kind |-> "raise", value |-> PyNone, exc |-> error,
     eresp |-> resp, ereq |-> request, resp |-> resp]

\* A builtin error (KeyError, TypeError, AttributeError) escaping the handler.
Escaped(error, resp) ==
    [kind |-> "raise", value |-> PyNone, exc |-> error,
     eresp |-> NoResponse, ereq |-> NoRequest, resp |-> resp]

\* return resp.body[key]
ReturnField(resp, key) ==
    LET got == PyGetItem(resp.body, key)
    IN  IF got.ok THEN Returned(got.val, resp) ELSE Escaped(got.exc, resp)

----------------------------------------------------------------------------
\* The Request each method builds

server_id_request == Request("get", "/_admin/server/id", PyNone, PyNone)

server_role_request == Request("get", "/_admin/server/role", PyNone, PyNone)

server_version_request(server_id) ==
    Request("get", "/_admin/cluster/nodeVersion",
            PyDict("ServerID" :> server_id), PyNone)

server_engine_request(server_id) ==
    Request("get", "/_admin/cluster/nodeEngine",
            PyDict("ServerID" :> server_id), PyNone)

server_statistics_request(server_id) ==
    Request("get", "/_admin/cluster/nodeStatistics",
            PyDict("ServerID" :> server_id), PyNone)

health_request == Request("get", "/_admin/cluster/health", PyNone, PyNone)

\* Mutant: the mode is sent as it is, without the enclosing quotes.
toggle_maintenance_mode_request_unquoted(mode) ==
    Request("put", "/_admin/cluster/maintenance", PyNone, PyStr(PyStrOf(mode)))

\* data='"{}"'.format(mode)
toggle_maintenance_mode_request(mode) ==
    Request("put", "/_admin/cluster/maintenance", PyNone,
            PyStr("\"" \o PyStrOf(mode) \o "\""))

endpoints_request == Request("get", "/_api/cluster/endpoints", PyNone, PyNone)

----------------------------------------------------------------------------
\* The response_handler closure of each method; `request` is the Request the
\* closure captured.

server_id_response_handler(resp, request) ==
    IF resp.is_success
    THEN ReturnField(resp, "id")
    ELSE Raised("ClusterServerIDError", resp, request)

\* Mutant: the handler of server_id pasted into server_role, key unchanged.
server_role_response_handler_id_key(resp, request) ==
    IF resp.is_success
    THEN ReturnField(resp, "id")
    ELSE Raised("ClusterServerRoleError", resp, request)

server_role_response_handler(resp, request) ==
    IF resp.is_success
    THEN ReturnField(resp, "role")
    ELSE Raised("ClusterServerRoleError", resp, request)

server_version_response_handler(resp, request) ==
    IF resp.is_success
    THEN Returned(resp.body, resp)
    ELSE Raised("ClusterServerVersionError", resp, request)

server_engine_response_handler(resp, request) ==
    IF resp.is_success
    THEN Returned(resp.body, resp)
    ELSE Raised("ClusterServerEngineError", resp, request)

server_statistics_response_handler(resp, request) ==
    IF resp.is_success
    THEN Returned(resp.body, resp)
    ELSE Raised("ClusterServerStatisticsError", resp, request)

\* Mutant: only 'error' is popped.
health_response_handler_keeps_code(resp, request) ==
    IF resp.is_success
    THEN LET p1 == PyPop(resp.body, "error")
             r1 == [resp EXCEPT !.body = p1.obj]
         IN  IF ~p1.ok THEN Escaped(p1.exc, r1)
             ELSE Returned(r1.body, r1)
    ELSE Raised("ClusterHealthError", resp, request)

\* resp.body.pop('error'); resp.body.pop('code'); return resp.body
health_response_handler(resp, request) ==
    IF resp.is_success
    THEN LET p1 == PyPop(resp.body, "error")
             r1 == [resp EXCEPT !.body = p1.obj]
             p2 == PyPop(r1.body, "code")
             r2 == [r1 EXCEPT !.body = p2.obj]
         IN  IF ~p1.ok THEN Escaped(p1.exc, r1)
             ELSE IF ~p2.ok THEN Escaped(p2.exc, r2)
             ELSE Returned(r2.body, r2)
    ELSE Raised("ClusterHealthError", resp, request)

toggle_maintenance_mode_response_handler(resp, request) ==
    IF resp.is_success
    THEN Returned(resp.body, resp)
    ELSE Raised("ClusterMaintenanceModeError", resp, request)

\* Mutant: the list is built back to front.
RECURSIVE EndpointsOf_reversed(_, _)
EndpointsOf_reversed(items, i) ==
    IF i > Len(items) THEN Ok(PyList(<<>>))
    ELSE LET got == PyGetItem(items[i], "endpoint")
         IN  IF ~got.ok THEN Err(got.exc)
             ELSE LET rest == EndpointsOf_reversed(items, i + 1)
                  IN  IF rest.ok THEN Ok(PyList(rest.val.l \o <<got.val>>))
                      ELSE Err(rest.exc)

\* [item['endpoint'] for item in items[i..]], evaluated left to right: the
\* list built, or the first error raised.
RECURSIVE EndpointsOf(_, _)
EndpointsOf(items, i) ==
    IF i > Len(items) THEN Ok(PyList(<<>>))
    ELSE LET got == PyGetItem(items[i], "endpoint")
         IN  IF ~got.ok THEN Err(got.exc)
             ELSE LET rest == EndpointsOf(items, i + 1)
                  IN  IF rest.ok THEN Ok(PyList(<<got.val>> \o rest.val.l))
                      ELSE Err(rest.exc)

\* Mutant: the error the docstring of endpoints names is raised.
endpoints_response_handler_docstring_error(resp, request) ==
    IF ~resp.is_success
    THEN Raised("ServerEndpointsError", resp, request)
    ELSE LET got == PyGetItem(resp.body, "endpoints")
             it  == PyIter(got.val)
             out == EndpointsOf(it.items, 1)
         IN  IF ~got.ok THEN Escaped(got.exc, resp)
             ELSE IF ~it.ok THEN Escaped(it.exc, resp)
             ELSE IF ~out.ok THEN Escaped(out.exc, resp)
             ELSE Returned(out.val, resp)

endpoints_response_handler(resp, request) ==
    IF ~resp.is_success
    THEN Raised("ClusterEndpointsError", resp, request)
    ELSE LET got == PyGetItem(resp.body, "endpoints")
             it  == PyIter(got.val)
             out == EndpointsOf(it.items, 1)
         IN  IF ~got.ok THEN Escaped(got.exc, resp)
             ELSE IF ~it.ok THEN Escaped(it.exc, resp)
             ELSE IF ~out.ok THEN Escaped(out.exc, resp)
             ELSE Returned(out.val, resp)

\* The closure defined by the method `op`.
response_handler(op, resp, request) ==
    CASE op = "server_id"         -> server_id_response_handler(resp, request)
      [] op = "server_role"       -> server_role_response_handler(resp, request)
      [] op = "server_version"    -> server_version_response_handler(resp, request)
      [] op = "server_engine"     -> server_engine_response_handler(resp, request)
      [] op = "server_statistics" -> server_statistics_response_handler(resp, request)
      [] op = "health"            -> health_response_handler(resp, request)
      [] op = "toggle_maintenance_mode" ->
             toggle_maintenance_mode_response_handler(resp, request)
      [] op = "endpoints"         -> endpoints_response_handler(resp, request)

----------------------------------------------------------------------------
\* Inputs

Calls == 1..MaxCalls

ServerIDs == {PyStr("node-1"), PyStr("node-2")}

Modes == {PyStr("on"), PyStr("off"), PyStr("maybe"), PyNone}

AllowedModes == {PyStr("on"), PyStr("off")}

FieldValues == {PyStr("node-1"), PyStr("COORDINATOR"), PyStr(""), PyNone}

Items == {PyDict("endpoint" :> PyStr("tcp://a:1")),
          PyDict("endpoint" :> PyStr("tcp://b:2")),
          PyDict("name" :> PyStr("c"))}

ItemLists == UNION {[1..n -> Items] : n \in 0..MaxEndpoints}

HealthFields ==
    [error |-> PyBool("False"), code |-> PyInt("200"),
     Node1 |-> PyDict("Status" :> PyStr("GOOD")),
     Node2 |-> PyDict("Status" :> PyStr("FAILED"))]

HealthBodies ==
    {PyDict([k \in K |-> HealthFields[k]]) : K \in SUBSET {"error", "code", "Node1", "Node2"}}

EndpointsBodies ==
    {PyDict("endpoints" :> PyList(l)) : l \in ItemLists}
    \cup {PyDict("endpoints" :> v) : v \in {PyStr(""), PyStr("tcp"), PyNone}}

ErrorBody ==
    PyDict("error" :> PyBool("True") @@ "code" :> PyInt("503")
           @@ "errorMessage" :> PyStr("service unavailable"))

Bodies ==
    HealthBodies \cup EndpointsBodies
    \cup {PyDict("id" :> v) : v \in FieldValues}
    \cup {PyDict("role" :> v) : v \in FieldValues}
    \cup {ErrorBody, PyNone, PyList(<<>>), PyStr("oops")}

Responses ==
    {Response(sc, ok, b) : sc \in {200, 404}, ok \in BOOLEAN, b \in Bodies}

\* A body that carries every field some method reads.
FullBody ==
    PyDict("id" :> PyStr("node-1") @@ "role" :> PyStr("COORDINATOR")
           @@ "error" :> PyBool("False") @@ "code" :> PyInt("200")
           @@ "Node1" :> PyDict("Status" :> PyStr("GOOD"))
           @@ "endpoints" :> PyList(<<PyDict("endpoint" :> PyStr("tcp://a:1")),
                                      PyDict("endpoint" :> PyStr("tcp://b:2"))>>))

ConcResponses ==
    {Response(200, TRUE, FullBody), Response(404, FALSE, ErrorBody)}

----------------------------------------------------------------------------
\* State

VARIABLES
    cluster,    \* the attributes of the Cluster object
    calls       \* per call: the frame of the method and what the executor holds

vars == <<cluster, calls>>

\* def response_handler(resp): the closure of method `op` over `request`.
Closure(op, request) == [op |-> op, request |-> request]

NoOutcome ==
    [kind |-> "none", value |-> PyNone, exc |-> "",
     eresp |-> NoResponse, ereq |-> NoRequest]

\* What the caller of the handler sees of a handler run.
OutcomeOf(run) ==
    [kind |-> run.kind, value |-> run.value, exc |-> run.exc,
     eresp |-> run.eresp, ereq |-> run.ereq]

IdleCall ==
    [pc |-> "idle", op |-> "", arg |-> PyNone, request |-> NoRequest,
     nrequests |-> 0, nhandlers |-> 0,
     nexec |-> 0, sent |-> NoRequest, handler |-> Closure("", NoRequest),
     nhandled |-> 0, resp_in |-> NoResponse, resp |-> NoResponse,
     outcome |-> NoOutcome, result |-> NoOutcome]

\* Cluster.__init__(connection, executor)
Init ==
    /\ cluster = [conn |-> "connection", executor |-> "executor"]
    /\ calls = [c \in Calls |-> IdleCall]

----------------------------------------------------------------------------
\* The executor

\* self._execute(request, response_handler): the executor takes the pair and
\* the call is suspended until the transport answers.
execute(call, request, handler) ==
    [call EXCEPT !.pc = "awaiting", !.nexec = @ + 1,
                 !.sent = request, !.handler = handler]

\* The transport answers the request of call c with resp; the executor applies
\* the handler it was given to that Response, once.
Deliver(c, resp) ==
    /\ calls[c].pc = "awaiting"
    /\ LET h   == calls[c].handler
           run == response_handler(h.op, resp, h.request)
       IN  calls' = [calls EXCEPT ![c].pc = "handled",
                                  ![c].nhandled = @ + 1,
                                  ![c].resp_in = resp,
                                  ![c].resp = run.resp,
                                  ![c].outcome = OutcomeOf(run)]
    /\ UNCHANGED cluster

\* The transport produces no Response: the executor raises a transport error
\* without invoking the handler.
TransportFails(c) ==
    /\ calls[c].pc = "awaiting"
    /\ calls' = [calls EXCEPT ![c].pc = "handled",
                              ![c].outcome = [NoOutcome EXCEPT !.kind = "raise",
                                                               !.exc = "TransportError"]]
    /\ UNCHANGED cluster

----------------------------------------------------------------------------
\* The methods of Cluster

\* The frame of a method up to its await: request = Request(...),
\* def response_handler(resp), self._execute(request, response_handler).
Invoke(call, op, arg, request) ==
    execute([call EXCEPT !.op = op, !.arg = arg, !.request = request,
                         !.nrequests = @ + 1, !.nhandlers = @ + 1],
            request, Closure(op, request))

server_id(c) ==
    /\ calls[c].pc = "idle"
    /\ calls' = [calls EXCEPT ![c] = Invoke(@, "server_id", PyNone, server_id_request)]
    /\ UNCHANGED cluster

server_role(c) ==
    /\ calls[c].pc = "idle"
    /\ calls' = [calls EXCEPT ![c] = Invoke(@, "server_role", PyNone, server_role_request)]
    /\ UNCHANGED cluster

\* Mutant: the Request is kept on the Cluster object, so the handlers of the
\* calls in flight all see the Request of the latest call.
server_version_shared(c, sid) ==
    /\ calls[c].pc = "idle"
    /\ calls' = [k \in Calls |->
                   IF k = c
                   THEN Invoke(calls[k], "server_version", sid, server_version_request(sid))
                   ELSE IF calls[k].pc = "awaiting"
                        THEN [calls[k] EXCEPT !.handler.request = server_version_request(sid)]
                        ELSE calls[k]]
    /\ UNCHANGED cluster

server_version(c, sid) ==
    /\ calls[c].pc = "idle"
    /\ calls' = [calls EXCEPT ![c] = Invoke(@, "server_version", sid,
                                            server_version_request(sid))]
    /\ UNCHANGED cluster

\* Mutant: the pair is handed to the executor a second time.
server_engine_retry(c, sid) ==
    /\ calls[c].pc = "idle"
    /\ calls' = [calls EXCEPT ![c] =
                   execute(Invoke(@, "server_engine", sid, server_engine_request(sid)),
                           server_engine_request(sid),
                           Closure("server_engine", server_engine_request(sid)))]
    /\ UNCHANGED cluster

server_engine(c, sid) ==
    /\ calls[c].pc = "idle"
    /\ calls' = [calls EXCEPT ![c] = Invoke(@, "server_engine", sid,
                                            server_engine_request(sid))]
    /\ UNCHANGED cluster

server_statistics(c, sid) ==
    /\ calls[c].pc = "idle"
    /\ calls' = [calls EXCEPT ![c] = Invoke(@, "server_statistics", sid,
                                            server_statistics_request(sid))]
    /\ UNCHANGED cluster

health(c) ==
    /\ calls[c].pc = "idle"
    /\ calls' = [calls EXCEPT ![c] = Invoke(@, "health", PyNone, health_request)]
    /\ UNCHANGED cluster

toggle_maintenance_mode(c, mode) ==
    /\ calls[c].pc = "idle"
    /\ calls' = [calls EXCEPT ![c] = Invoke(@, "toggle_maintenance_mode", mode,
                                            toggle_maintenance_mode_request(mode))]
    /\ UNCHANGED cluster

endpoints(c) ==
    /\ calls[c].pc = "idle"
    /\ calls' = [calls EXCEPT ![c] = Invoke(@, "endpoints", PyNone, endpoints_request)]
    /\ UNCHANGED cluster

\* What `return await self._execute(...)` hands to the caller.
Awaited(outcome) == outcome

\* The awaited executor call completes and the method returns or raises.
return_await(c) ==
    /\ calls[c].pc = "handled"
    /\ calls' = [calls EXCEPT ![c].pc = "done",
                              ![c].result = Awaited(calls[c].outcome)]
    /\ UNCHANGED cluster

\* A call of any method.
Call(c) ==
    \/ server_id(c)
    \/ server_role(c)
    \/ \E sid \in ServerIDs : server_version(c, sid)
    \/ \E sid \in ServerIDs : server_engine(c, sid)
    \/ \E sid \in ServerIDs : server_statistics(c, sid)
    \/ health(c)
    \/ \E mode \in Modes : toggle_maintenance_mode(c, mode)
    \/ endpoints(c)

----------------------------------------------------------------------------
\* One call at a time, against every Response.
Next ==
    \/ Call(1)
    \/ \E resp \in Responses : Deliver(1, resp)
    \/ TransportFails(1)
    \/ return_await(1)

Spec == Init /\ [][Next]_vars

\* Concurrent calls on the one Cluster object, interleaved at their awaits.
NextConc ==
    \E c \in Calls :
        \/ Call(c)
        \/ \E resp \in ConcResponses : Deliver(c, resp)
        \/ TransportFails(c)
        \/ return_await(c)

SpecConc == Init /\ [][NextConc]_vars

----------------------------------------------------------------------------
\* Properties

\* The handler of call c has run.
HandlerRan(c) == calls[c].nhandled = 1

\* The error each method documents for a failed retrieval.
DedicatedError(op) ==
    CASE op = "server_id"               -> "ClusterServerIDError"
      [] op = "server_role"             -> "ClusterServerRoleError"
      [] op = "server_version"          -> "ClusterServerVersionError"
      [] op = "server_engine"           -> "ClusterServerEngineError"
      [] op = "server_statistics"       -> "ClusterServerStatisticsError"
      [] op = "health"                  -> "ClusterHealthError"
      [] op = "toggle_maintenance_mode" -> "ClusterMaintenanceModeError"
      [] op = "endpoints"               -> "ClusterEndpointsError"

C2_OneExecutePerCall ==
    \A c \in Calls :
        /\ calls[c].pc = "idle" => calls[c].nexec = 0
        /\ calls[c].pc # "idle" =>
               /\ calls[c].nrequests = 1
               /\ calls[c].nhandlers = 1
               /\ calls[c].nexec = 1
               /\ calls[c].sent = calls[c].request
               /\ calls[c].handler = Closure(calls[c].op, calls[c].request)
               /\ calls[c].nhandled <= 1
        /\ calls[c].pc = "done" => calls[c].result = calls[c].outcome

C2_Witness ==
    \E c \in Calls :
        /\ calls[c].pc = "done"
        /\ HandlerRan(c)
        /\ calls[c].result.kind = "raise"
        /\ calls[c].nexec = 1

\* C3: toggle_maintenance_mode validates mode against {"on", "off"}: for any
\* other mode no Request reaches the executor, and every maintenance Request
\* that reached the executor has a body representing "on" or "off".
C3_ModeValidated ==
    \A c \in Calls :
        calls[c].op = "toggle_maintenance_mode" =>
            /\ calls[c].arg \notin AllowedModes => calls[c].nexec = 0
            /\ calls[c].nexec > 0 =>
                   calls[c].sent.data \in {PyStr("\"on\""), PyStr("\"off\"")}

\* C4: toggle_maintenance_mode(mode) hands the executor a PUT to
\* /_admin/cluster/maintenance whose body is the mode string enclosed in
\* double quotes, and on a success Response returns the body unchanged.
C4_MaintenanceRequest ==
    \A c \in Calls :
        (calls[c].op = "toggle_maintenance_mode" /\ calls[c].nexec > 0) =>
            LET sent == calls[c].sent
                mode == calls[c].arg
                n    == Len(sent.data.s)
            IN  /\ sent.method = "put"
                /\ sent.endpoint = "/_admin/cluster/maintenance"
                /\ sent.params = PyNone
                /\ sent.data.t = "str"
                /\ mode.t = "str" =>
                       /\ n = Len(mode.s) + 2
                       /\ SubSeq(sent.data.s, 1, 1) = "\""
                       /\ SubSeq(sent.data.s, n, n) = "\""
                       /\ SubSeq(sent.data.s, 2, n - 1) = mode.s
                /\ mode = PyStr("on") => sent.data = PyStr("\"on\"")
                /\ (HandlerRan(c) /\ calls[c].resp_in.is_success) =>
                       /\ calls[c].outcome.kind = "return"
                       /\ calls[c].outcome.value = calls[c].resp_in.body

C4_Witness ==
    \E c \in Calls :
        /\ calls[c].pc = "done"
        /\ calls[c].op = "toggle_maintenance_mode"
        /\ calls[c].arg = PyStr("on")
        /\ calls[c].sent.data.s = "\"on\""
        /\ calls[c].resp_in.is_success
        /\ calls[c].result.kind = "return"
        /\ calls[c].result.value = PyDict("role" :> PyStr("COORDINATOR"))

\* C5: health() against a success Response whose body is a mapping with the
\* keys error and code returns exactly the other keys of the body, each with
\* its original value.
C5_HealthStripsErrorAndCode ==
    \A c \in Calls :
        LET body == calls[c].resp_in.body
            out  == calls[c].outcome
        IN  ( /\ calls[c].op = "health"
              /\ HandlerRan(c)
              /\ calls[c].resp_in.is_success
              /\ body.t = "dict"
              /\ {"error", "code"} \subseteq DOMAIN body.d ) =>
                /\ out.kind = "return"
                /\ out.value.t = "dict"
                /\ DOMAIN out.value.d = DOMAIN body.d \ {"error", "code"}
                /\ \A k \in DOMAIN out.value.d : out.value.d[k] = body.d[k]

C5_Witness ==
    \E c \in Calls :
        /\ calls[c].pc = "done"
        /\ calls[c].op = "health"
        /\ calls[c].resp_in.is_success
        /\ calls[c].resp_in.body.t = "dict"
        /\ DOMAIN calls[c].resp_in.body.d = {"error", "code", "Node1", "Node2"}
        /\ calls[c].result.kind = "return"
        /\ DOMAIN calls[c].result.value.d = {"Node1", "Node2"}

\* The value v is a list whose items are all mappings with the key endpoint.
IsEndpointList(v) ==
    /\ v.t = "list"
    /\ \A i \in 1..Len(v.l) : v.l[i].t = "dict" /\ "endpoint" \in DOMAIN v.l[i].d

\* C6: endpoints() against a success Response whose body holds a list under
\* the key endpoints returns the endpoint fields of its items: same length,
\* same order, the i-th result the endpoint field of the i-th item.
C6_EndpointsProjected ==
    \A c \in Calls :
        LET body == calls[c].resp_in.body
            out  == calls[c].outcome
        IN  ( /\ calls[c].op = "endpoints"
              /\ HandlerRan(c)
              /\ calls[c].resp_in.is_success
              /\ body.t = "dict"
              /\ "endpoints" \in DOMAIN body.d
              /\ IsEndpointList(body.d["endpoints"]) ) =>
                LET items == body.d["endpoints"].l
                IN  /\ out.kind = "return"
                    /\ out.value.t = "list"
                    /\ Len(out.value.l) = Len(items)
                    /\ \A i \in 1..Len(items) :
                           out.value.l[i] = items[i].d["endpoint"]

C6_Witness ==
    \E c \in Calls :
        /\ calls[c].pc = "done"
        /\ calls[c].op = "endpoints"
        /\ calls[c].resp_in.is_success
        /\ calls[c].resp_in.body =
               PyDict("endpoints" :> PyList(<<PyDict("endpoint" :> PyStr("tcp://a:1")),
                                              PyDict("endpoint" :> PyStr("tcp://b:2"))>>))
        /\ calls[c].result.kind = "return"
        /\ calls[c].result.value = PyList(<<PyStr("tcp://a:1"), PyStr("tcp://b:2")>>)

\* C7: against a success Response, server_id() returns the id field of the
\* body and server_role() the role field, whatever the value; both send a GET
\* with no params and no body, to /_admin/server/id and /_admin/server/role.
C7_IdAndRole ==
    \A c \in Calls :
        \A m \in {[op |-> "server_id", key |-> "id", path |-> "/_admin/server/id"],
                  [op |-> "server_role", key |-> "role", path |-> "/_admin/server/role"]} :
            (calls[c].op = m.op /\ calls[c].nexec > 0) =>
                LET body == calls[c].resp_in.body
                IN  /\ calls[c].sent.method = "get"
                    /\ calls[c].sent.endpoint = m.path
                    /\ calls[c].sent.params = PyNone
                    /\ calls[c].sent.data = PyNone
                    /\ ( /\ HandlerRan(c)
                         /\ calls[c].resp_in.is_success
                         /\ body.t = "dict"
                         /\ m.key \in DOMAIN body.d ) =>
                           /\ calls[c].outcome.kind = "return"
                           /\ calls[c].outcome.value = body.d[m.key]

C7_Witness ==
    \E c \in Calls :
        /\ calls[c].pc = "done"
        /\ calls[c].op = "server_role"
        /\ calls[c].resp_in.is_success
        /\ calls[c].resp_in.body = PyDict("role" :> PyStr("COORDINATOR"))
        /\ calls[c].result.kind = "return"
        /\ calls[c].result.value = PyStr("COORDINATOR")

\* C8: the Response is read-only to the handler: for every method and every
\* Response, the Response's status, success flag and body are the same after
\* the handler has run as before it, and the Request is unchanged too.
C8_ResponseReadOnly ==
    \A c \in Calls :
        HandlerRan(c) =>
            /\ calls[c].resp.status_code = calls[c].resp_in.status_code
            /\ calls[c].resp.is_success = calls[c].resp_in.is_success
            /\ calls[c].resp.body = calls[c].resp_in.body
            /\ calls[c].handler.request = calls[c].sent

\* C9: the outcome of every handler is decided by response.is_success alone:
\* on every success Response, whatever its body, the handler returns a value
\* and raises nothing; only failure Responses make it raise.
C9_SuccessAlwaysReturns ==
    \A c \in Calls :
        HandlerRan(c) =>
            (calls[c].resp_in.is_success <=> calls[c].outcome.kind = "return")

\* The Request a call of `op` with argument `arg` builds.
BuiltBy(op, arg) ==
    CASE op = "server_id"               -> server_id_request
      [] op = "server_role"             -> server_role_request
      [] op = "server_version"          -> server_version_request(arg)
      [] op = "server_engine"           -> server_engine_request(arg)
      [] op = "server_statistics"       -> server_statistics_request(arg)
      [] op = "health"                  -> health_request
      [] op = "toggle_maintenance_mode" -> toggle_maintenance_mode_request(arg)
      [] op = "endpoints"               -> endpoints_request

\* Each call holds the pair it built, and its outcome is the one its own
\* handler gives on the Response to its own Request.
OwnPair ==
    \A c \in Calls :
        /\ calls[c].pc # "idle" =>
               /\ calls[c].sent = BuiltBy(calls[c].op, calls[c].arg)
               /\ calls[c].handler = Closure(calls[c].op, BuiltBy(calls[c].op, calls[c].arg))
        /\ HandlerRan(c) =>
               /\ calls[c].outcome =
                      OutcomeOf(response_handler(calls[c].op, calls[c].resp_in,
                                                 BuiltBy(calls[c].op, calls[c].arg)))
               /\ calls[c].outcome.exc = DedicatedError(calls[c].op) =>
                      calls[c].outcome.ereq = BuiltBy(calls[c].op, calls[c].arg)
        /\ calls[c].pc = "done" => calls[c].result = calls[c].outcome

\* A step of one call writes nothing another call holds, and nothing of the
\* Cluster object.
OwnFrame ==
    /\ cluster' = cluster
    /\ \A c, k \in Calls : (c # k /\ calls'[c] # calls[c]) => calls'[k] = calls[k]

\* C10: under any interleaving of concurrent calls on one Cluster object each
\* call keeps its own Request/handler pair, gets the value or error its own
\* handler produced, an error carries the Request of the same call, and the
\* Cluster object holds no state one call writes and another reads.
C10_CallsIndependent == []OwnPair /\ [][OwnFrame]_vars

C10_Witness ==
    /\ calls[1].pc = "done" /\ calls[2].pc = "done"
    /\ calls[1].op = "server_version" /\ calls[2].op = "server_version"
    /\ calls[1].arg # calls[2].arg
    /\ calls[1].result.exc = "ClusterServerVersionError"
    /\ calls[2].result.exc = "ClusterServerVersionError"
    /\ calls[1].result.ereq # calls[2].result.ereq
    /\ calls[1].result.ereq.params = PyDict("ServerID" :> calls[1].arg)

====
